---- MODULE Spec2Model ----
(***************************************************************************)
(* Webhook ingestion API (app/main.py, app/storage.py, app/metrics.py,     *)
(* app/config.py, app/models.py).                                          *)
(*                                                                         *)
(* Strings the code inspects character by character (phone numbers,        *)
(* timestamps, signatures, ids) are sequences of one-character strings.    *)
(* A Python Optional is a set with at most one element: None is {} and a   *)
(* present value v is {v}.                                                 *)
(***************************************************************************)
EXTENDS Integers, Sequences, FiniteSets, TLC

\* Number of POST /webhook requests the model lets in.
NumReq == 2

None == {}
Some(v) == {v}
Val(o) == CHOOSE v \in o : TRUE

Range(s) == {s[i] : i \in 1..Len(s)}

--------------------------------------------------------------------------
(* Characters *)

Digits == {"0", "1", "2", "3", "4", "5", "6", "7", "8", "9"}
\* A decimal digit outside ASCII (ARABIC-INDIC DIGIT THREE).
UnicodeDigits == {"U+0663"}
\* What  \d  matches in a str pattern: every Unicode decimal digit.
ReDigits == Digits \cup UnicodeDigits
HexDigits == <<"0", "1", "2", "3", "4", "5", "6", "7", "8", "9", "a", "b", "c", "d", "e", "f">>
\* A character outside ASCII (e with acute accent), as an HTTP header decoded
\* as latin-1 can hold; one element of a string like any other character.
NonAsciiChars == {"U+00E9"}
IsAscii(s) == \A i \in 1..Len(s) : s[i] \notin NonAsciiChars

--------------------------------------------------------------------------
(* Request validation: MessageRequest, applied by the framework before the *)
(* handler body runs.                                                      *)

\* Python's  $  matches at the end and also just before a final newline.
StripFinalNewline(v) ==
    IF Len(v) > 0 /\ v[Len(v)] = "\n" THEN SubSeq(v, 1, Len(v) - 1) ELSE v

\* re.match(r'^\+\d+$', v)
MatchesE164(v) ==
    \E w \in {v, StripFinalNewline(v)} :
        /\ Len(w) >= 2
        /\ w[1] = "+"
        /\ \A i \in 2..Len(w) : w[i] \in ReDigits

validate_from(v) == MatchesE164(v)

validate_to(v) == MatchesE164(v)

\* re.match(r'^\d{4}-\d{2}-\d{2}T\d{2}:\d{2}:\d{2}Z$', v)
validate_ts(v) ==
    \E w \in {v, StripFinalNewline(v)} :
        /\ Len(w) = 20
        /\ \A i \in {1, 2, 3, 4, 6, 7, 9, 10, 12, 13, 15, 16, 18, 19} : w[i] \in ReDigits
        /\ w[5] = "-" /\ w[8] = "-" /\ w[11] = "T"
        /\ w[14] = ":" /\ w[17] = ":" /\ w[20] = "Z"

MaxTextLen == 4096

\* The field constraints of MessageRequest.
MessageRequest(b) ==
    /\ Len(b.message_id) >= 1
    /\ validate_from(b.from_msisdn)
    /\ validate_to(b.to_msisdn)
    /\ validate_ts(b.ts)
    /\ (b.text = None \/ Len(Val(b.text)) <= MaxTextLen)

--------------------------------------------------------------------------
(* Raw request bodies.  A raw body is the JSON text: the five fields plus  *)
(* its formatting (ws), which changes the bytes and not the parsed value.  *)

Ts(d) == <<"2", "0", "2", "5", "-", "0", "1", "-", "1", "5", "T", "1", "0", ":", "0", "0", ":", "0", d, "Z">>

Raw(id, from, to, ts, text, ws) ==
    [message_id |-> id, from |-> from, to |-> to, ts |-> ts, text |-> text, ws |-> ws]

RawBodies == <<
    Raw(<<"m", "1">>, <<"+", "1">>, <<"+", "2">>, Ts("1"), Some(<<"h", "i">>), 0),
    Raw(<<"m", "1">>, <<"+", "1">>, <<"+", "2">>, Ts("1"), Some(<<"h", "i">>), 1),
    Raw(<<"m", "1">>, <<"+", "3">>, <<"+", "2">>, Ts("2"), None, 0),
    Raw(<<"m", "2">>, <<"+", "1">>, <<"+", "2">>, Ts("0"), Some(<<"y", "o">>), 0),
    Raw(<<"m", "1">>, <<"1">>, <<"+", "2">>, Ts("1"), Some(<<"h", "i">>), 0)
>>

\* Further bodies, for the validation of the fields: one per constraint that
\* is broken, and bodies at the edge of what the validators accept.
LongText(n) == [i \in 1..n |-> "a"]

ExtraBodies == <<
    Raw(<<>>, <<"+", "1">>, <<"+", "2">>, Ts("1"), Some(<<"h", "i">>), 0),
    Raw(<<"m", "3">>, <<"+", "1", "\n">>, <<"+", "2">>, Ts("1"), Some(<<"h", "i">>), 0),
    Raw(<<"m", "3">>, <<"+", "1">>, <<"2">>, Ts("1"), Some(<<"h", "i">>), 0),
    Raw(<<"m", "3">>, <<"+", "1">>, <<"+", "2">>, SubSeq(Ts("1"), 1, 19), Some(<<"h", "i">>), 0),
    Raw(<<"m", "3">>, <<"+", "1">>, <<"+", "2">>, Ts("1") \o <<"\n">>, Some(<<"h", "i">>), 0),
    Raw(<<"m", "3">>, <<"+", "1">>, <<"+", "2">>, Ts("1"), Some(LongText(MaxTextLen + 1)), 0),
    Raw(<<"m", "3">>, <<"+", "1">>, <<"+", "2">>, Ts("1"), Some(LongText(MaxTextLen)), 0),
    Raw(<<"m", "3">>, <<"+", "U+0663">>, <<"+", "2">>, Ts("1"), None, 0)
>>

AllBodies == RawBodies \o ExtraBodies

\* The framework's JSON parsing: the fields, by alias, without the formatting.
Parse(raw) ==
    [message_id |-> raw.message_id, from_msisdn |-> raw.from, to_msisdn |-> raw.to,
     ts |-> raw.ts, text |-> raw.text]

\* The body re-serialized from its parsed fields (json.dumps default format).
Reserialize(raw) == [raw EXCEPT !.ws = 0]

--------------------------------------------------------------------------
(* HMAC-SHA256 hexdigest, abstracted as a keyed function that is injective *)
(* on the keys and bodies of the model and printed in lowercase hex.       *)

Keys == <<"", "k1">>

Code(seq, x) == CHOOSE i \in 1..Len(seq) : seq[i] = x

HmacHex(key, raw) ==
    LET n == ((Code(Keys, key) * Len(AllBodies) + Code(AllBodies, raw)) * 37 + 11) % 256
    IN  <<HexDigits[(n \div 16) + 1], HexDigits[(n % 16) + 1]>>

Upper(c) ==
    CASE c = "a" -> "A" [] c = "b" -> "B" [] c = "c" -> "C"
      [] c = "d" -> "D" [] c = "e" -> "E" [] c = "f" -> "F"
      [] OTHER -> c

UpperHex(s) == [i \in 1..Len(s) |-> Upper(s[i])]

\* X-Signature headers that are absent, empty or malformed: the digest in
\* upper case, a truncated digest, non-hex text and non-ASCII text.
Malformed(raw) ==
    {None, Some(<<>>), Some(UpperHex(HmacHex("k1", raw))), Some(SubSeq(HmacHex("k1", raw), 1, 1)),
     Some(<<"z", "z">>), Some(<<"U+00E9", "1">>)}

\* The X-Signature headers a client may send with a body: the digest under
\* "k1" of this body or of its reformatted twin and, with the first body,
\* its digest under the empty key and the malformed headers (their handling
\* does not depend on the body).
Signatures(raw) ==
    {Some(HmacHex("k1", b)) : b \in {raw, Reserialize(raw)}}
    \cup (IF raw = RawBodies[1] THEN Malformed(raw) \cup {Some(HmacHex("", raw))} ELSE {})

--------------------------------------------------------------------------
(* State *)

Reqs == 1..NumReq

ResultKeys == {"invalid_signature", "duplicate", "created", "validation_error"}

VARIABLES
    secret,             \* config.WEBHOOK_SECRET: None, or Some(key)
    messages,           \* the messages table, rows in insertion order
    clock,              \* source of created_at (datetime.utcnow)
    webhook_requests,   \* MetricsCollector.webhook_requests, absent key = 0
    req,                \* per request: position in the handler, inputs, locals, response
    recorded,           \* history: the result keys each request recorded, in order
    added,              \* history: the number of rows each request added to the table
    faulted,            \* history: the store operations of each request that hit a backend failure
    hidden,             \* history: the pre-check of the request failed while its id was stored
    lst,                \* the GET /messages call: position, parameters, locals, response
    sts,                \* the GET /stats calls: position, locals, response
    database_url,       \* config.DATABASE_URL
    db,                 \* the database file at the configured path: is it there, has it the table
    probe,              \* the GET /health/ready calls: position, response
    http_requests,      \* MetricsCollector.http_requests
    lock,               \* MetricsCollector._lock: its holder, if any
    thread,             \* the threads calling the collector: position, arguments, locals
    calls,              \* history: the calls made, per counter and key
    pager               \* a client reading the listing page by page: its limit, filters, pages

vars == <<secret, messages, clock, webhook_requests, req, recorded, added, faulted, hidden, lst, sts,
          database_url, db, probe, http_requests, lock, thread, calls, pager>>

\* The collector's request counter, its lock and its callers.
collectorVars == <<http_requests, lock, thread, calls>>

\* The readiness probe and what it reads.
healthVars == <<database_url, db, probe>>

\* What the steps of POST /webhook leave alone.
besidesWebhook == <<lst, sts, healthVars, collectorVars, pager>>
\* What the steps of GET /messages leave alone.
besidesList == <<secret, clock, webhook_requests, req, recorded, added, faulted, hidden, sts, healthVars,
                 collectorVars, pager>>
\* What the steps of GET /stats leave alone.
besidesStats == <<secret, clock, webhook_requests, req, recorded, added, faulted, hidden, lst, healthVars,
                  collectorVars, pager>>
\* What the steps of GET /health/ready and the changes of the database file
\* leave alone.
besidesHealth == <<secret, messages, clock, webhook_requests, req, recorded, added, faulted, hidden,
                   lst, sts, database_url, collectorVars, pager>>
\* What the calls of the collector leave alone.
besidesCollector == <<secret, messages, clock, req, recorded, added, faulted, hidden, lst, sts,
                      healthVars, pager>>
\* What the paging client leaves alone.
besidesPager == <<secret, messages, clock, webhook_requests, req, recorded, added, faulted, hidden,
                  sts, healthVars, collectorVars>>

IdleReq ==
    [pc |-> "idle", raw_body |-> RawBodies[1], x_signature |-> None,
     is_duplicate |-> None, success |-> None, status |-> 0, content |-> ""]

\* No GET /messages call yet.
IdleList ==
    [pc |-> "idle", limit |-> 0, offset |-> 0, from_param |-> None, since |-> None, q |-> None,
     count |-> 0, status |-> 0, data |-> <<>>, total |-> 0, resp_limit |-> 0, resp_offset |-> 0,
     counted |-> <<>>, fetched |-> <<>>, reads |-> 0, failed |-> FALSE]

\* The GET /stats calls of the model, none made yet.
StatsCalls == 1..2

IdleStats ==
    [pc |-> "idle", total_messages |-> 0, senders_count |-> 0, messages_per_sender |-> <<>>,
     first_message_ts |-> None, last_message_ts |-> None, seen |-> <<>>, failed |-> FALSE]

\* config.py lines 14-17: the default of DATABASE_URL; the variable may be
\* set to the empty string.
DefaultDatabaseUrl == "sqlite:////data/app.db"

NoDatabase == [file |-> FALSE, table |-> FALSE]

\* models.py init_db, run at startup: the file and the table are created
\* when missing.  With an empty path the engine opens a private temporary
\* database, which is gone when the connection closes.
init_db(url, database) ==
    IF url = "" THEN database ELSE [file |-> TRUE, table |-> TRUE]

\* The readiness probes that may be in flight together.
NumProbes == 2

Probes == 1..NumProbes

IdleProbe ==
    [pc |-> "idle", status |-> 0, reason |-> "", store |-> NoDatabase, reachable |-> TRUE]

\* The threads that may call the collector together, and the (path, status)
\* keys of the model.
NumThreads == 2

Threads == 1..NumThreads

HttpKeys == {<<"/webhook", 200>>, <<"/webhook", 401>>}

IdleThread ==
    [pc |-> "idle", counter |-> "", result |-> "", key |-> <<>>, got |-> 0]

NoCalls ==
    [webhook_requests |-> [k \in ResultKeys |-> 0], http_requests |-> [key \in HttpKeys |-> 0],
     total |-> 0]

\* No paging client yet.
IdlePager ==
    [limit |-> 0, f |-> [from_param |-> None, since |-> None, q |-> None], pages |-> <<>>,
     complete |-> FALSE, failed |-> FALSE]

Init ==
    /\ secret \in {None, Some(""), Some("k1")}
    /\ messages = <<>>
    /\ clock = 0
    /\ webhook_requests = [k \in ResultKeys |-> 0]
    /\ req = [r \in Reqs |-> IdleReq]
    /\ recorded = [r \in Reqs |-> <<>>]
    /\ added = [r \in Reqs |-> 0]
    /\ faulted = [r \in Reqs |-> {}]
    /\ hidden = [r \in Reqs |-> FALSE]
    /\ lst = IdleList
    /\ sts = [c \in StatsCalls |-> IdleStats]
    /\ database_url = DefaultDatabaseUrl
    /\ db = init_db(DefaultDatabaseUrl, NoDatabase)
    /\ probe = [p \in Probes |-> IdleProbe]
    /\ http_requests = [key \in HttpKeys |-> 0]
    /\ lock = None
    /\ thread = [t \in Threads |-> IdleThread]
    /\ calls = NoCalls
    /\ pager = IdlePager

--------------------------------------------------------------------------
(* Metrics *)

\* MetricsCollector.record_webhook_result, under the collector's lock.
record_webhook_result(counters, result) ==
    [counters EXCEPT ![result] = @ + 1]

--------------------------------------------------------------------------
(* Signature verification, lines 178-215 of the handler *)

\* Variant: the digest of the body as re-serialized from the parsed fields.
expected_signature_reserialized(key, raw_body) == HmacHex(key, Reserialize(raw_body))

\* hmac.new(secret, raw_body, hashlib.sha256).hexdigest()
expected_signature(key, raw_body) == HmacHex(key, raw_body)

\* The loop of the comparison from position i on: every position of b is
\* visited and the differences are accumulated.
RECURSIVE tscmp_loop(_, _, _, _)
tscmp_loop(left, b, i, acc) ==
    IF i > Len(b) THEN acc
    ELSE tscmp_loop(left, b, i + 1,
                    [differ |-> acc.differ \/ left[i] # b[i], steps |-> acc.steps + 1])

\* Variant: the loop returns at the first difference.
RECURSIVE tscmp_loop_short_circuit(_, _, _, _)
tscmp_loop_short_circuit(left, b, i, acc) ==
    IF i > Len(b) THEN acc
    ELSE IF left[i] # b[i] THEN [differ |-> TRUE, steps |-> acc.steps + 1]
    ELSE tscmp_loop_short_circuit(left, b, i + 1, [differ |-> acc.differ, steps |-> acc.steps + 1])

\* Variant: the strings are compared with ==, which stops at the first
\* difference.
tscmp_short_circuit(a, b) ==
    IF Len(a) # Len(b) THEN [differ |-> TRUE, steps |-> 0]
    ELSE tscmp_loop_short_circuit(a, b, 1, [differ |-> FALSE, steps |-> 0])

\* The comparison behind hmac.compare_digest(a, b): b is walked in full
\* against a, or against itself when the lengths differ, and the result is
\* read off after the loop.  steps counts the positions compared.
tscmp(a, b) ==
    tscmp_loop(IF Len(a) = Len(b) THEN a ELSE b, b, 1,
               [differ |-> Len(a) # Len(b), steps |-> 0])

\* hmac.compare_digest on two ASCII strings.
compare_digest(a, b) == ~tscmp(a, b).differ

\* What the verification part of the handler ends in:
\*   "valid"             falls through to the idempotency check
\*   "invalid_signature" the two raise HTTPException(401) branches
\*   "validation_error"  an exception caught by  except Exception  (422):
\*                       None.encode() when no secret is set, and the TypeError
\*                       compare_digest raises on a non-ASCII str
verify_signature(x_signature, raw_body, key) ==
    IF x_signature = None \/ Val(x_signature) = <<>> THEN "invalid_signature"
    ELSE IF key = None THEN "validation_error"
    ELSE IF ~IsAscii(Val(x_signature)) THEN "validation_error"
    ELSE IF ~compare_digest(Val(x_signature), expected_signature(Val(key), raw_body))
         THEN "invalid_signature"
    ELSE "valid"

\* Variant: the raise after recording an invalid signature is missing.
after_verify_fallthrough(outcome) == "exists"

\* Variant: a valid signature leads straight to the insert.
after_verify_to_insert(outcome) == IF outcome = "valid" THEN "insert" ELSE "done"

\* Where the handler goes after the verification part: a raise ends it.
after_verify(outcome) == IF outcome = "valid" THEN "exists" ELSE "done"

--------------------------------------------------------------------------
(* Message store *)

HasRow(table, message_id) == \E i \in 1..Len(table) : table[i].message_id = message_id

\* Variant: the test of the fetched row is inverted (result is None).
message_exists_inverted(table, message_id, available) ==
    IF available THEN ~HasRow(table, message_id) ELSE FALSE

\* MessageStorage.message_exists; available = FALSE is a backend failure,
\* which the  except Exception  turns into False.
message_exists(table, message_id, available) ==
    IF available THEN HasRow(table, message_id) ELSE FALSE

MessageRow(b, created_at) ==
    [message_id |-> b.message_id, from_msisdn |-> b.from_msisdn, to_msisdn |-> b.to_msisdn,
     ts |-> b.ts, text |-> b.text, created_at |-> created_at]

\* Variant: the table has no PRIMARY KEY on message_id.
insert_message_no_key(table, row, available) ==
    IF ~available THEN [success |-> FALSE, table |-> table]
    ELSE [success |-> TRUE, table |-> Append(table, row)]

\* Variant: the IntegrityError branch returns True.
insert_message_conflict_ok(table, row, available) ==
    IF ~available THEN [success |-> FALSE, table |-> table]
    ELSE IF HasRow(table, row.message_id) THEN [success |-> TRUE, table |-> table]
    ELSE [success |-> TRUE, table |-> Append(table, row)]

\* Variant: INSERT OR REPLACE.
insert_message_or_replace(table, row, available) ==
    IF ~available THEN [success |-> FALSE, table |-> table]
    ELSE IF HasRow(table, row.message_id)
         THEN [success |-> TRUE,
               table |-> [i \in 1..Len(table) |->
                            IF table[i].message_id = row.message_id THEN row ELSE table[i]]]
    ELSE [success |-> TRUE, table |-> Append(table, row)]

\* MessageStorage.insert_message: the INSERT under the PRIMARY KEY on
\* message_id.  success is the first element of the returned pair; the table
\* changes only when the statement commits.
insert_message(table, row, available) ==
    IF ~available THEN [success |-> FALSE, table |-> table]
    ELSE IF HasRow(table, row.message_id) THEN [success |-> FALSE, table |-> table]
    ELSE [success |-> TRUE, table |-> Append(table, row)]

--------------------------------------------------------------------------
(* Responses *)

Response(status, content) == [status |-> status, content |-> content]

\* RequestValidationError raised by the framework for a body that fails MessageRequest.
UnprocessableResponse == Response(422, "detail: validation errors")
\* raise HTTPException(status_code=401, detail="invalid signature")
InvalidSignatureResponse == Response(401, "detail: invalid signature")
\* except Exception: raise HTTPException(status_code=422, detail=str(e))
ExceptionResponse == Response(422, "detail: str(e)")
\* Variant: a duplicate found by the pre-check is answered 409.
DuplicateResponseConflict == Response(409, "detail: duplicate")
\* JSONResponse(status_code=200, content={"status": "ok"}) of the pre-check branch
DuplicateResponse == Response(200, "status: ok")
\* Variant: a failed insert is answered 500.
InsertedResponse_error(success) ==
    IF success THEN Response(200, "status: ok") ELSE Response(500, "detail: Internal server error")

\* JSONResponse(status_code=200, content={"status": "ok"}) after insert_message
InsertedResponse(success) == Response(200, "status: ok")

\* Variant: both branches record 'created'.
insert_result_created(success) == "created"

\* Variant: a failed insert is recorded as an error.
insert_result_error(success) == IF success THEN "created" ELSE "validation_error"

\* The result recorded after insert_message returned.
insert_result(success) == IF success THEN "created" ELSE "duplicate"

--------------------------------------------------------------------------
(* POST /webhook *)

Finish(r, resp) ==
    [req EXCEPT ![r].pc = "done", ![r].status = resp.status, ![r].content = resp.content]

\* A request arrives; the framework parses and validates the body and calls
\* the handler only for a valid one.
Receive(r, raw, sig) ==
    /\ req[r].pc = "idle"
    /\ \A q \in Reqs : q < r => req[q].pc # "idle"
    /\ LET arrived == [req[r] EXCEPT !.raw_body = raw, !.x_signature = sig]
       IN  IF MessageRequest(Parse(raw))
           THEN req' = [req EXCEPT ![r] = [arrived EXCEPT !.pc = "verify"]]
           ELSE req' = [req EXCEPT ![r] = [arrived EXCEPT !.pc = "done",
                                              !.status = UnprocessableResponse.status,
                                              !.content = UnprocessableResponse.content]]
    /\ UNCHANGED <<secret, messages, clock, webhook_requests, recorded, added, faulted, hidden>>
    /\ UNCHANGED besidesWebhook

\* Lines 178-215 and 274-282.
VerifySignature(r) ==
    /\ req[r].pc = "verify"
    /\ LET outcome == verify_signature(req[r].x_signature, req[r].raw_body, secret)
           resp == IF outcome = "invalid_signature" THEN InvalidSignatureResponse
                   ELSE ExceptionResponse
       IN  IF outcome = "valid"
           THEN /\ req' = [req EXCEPT ![r].pc = after_verify(outcome)]
                /\ UNCHANGED <<webhook_requests, recorded>>
           ELSE /\ req' = [req EXCEPT ![r].pc = after_verify(outcome),
                                      ![r].status = resp.status, ![r].content = resp.content]
                /\ webhook_requests' = record_webhook_result(webhook_requests, outcome)
                /\ recorded' = [recorded EXCEPT ![r] = Append(@, outcome)]
    /\ UNCHANGED <<secret, messages, clock, added, faulted, hidden>>
    /\ UNCHANGED besidesWebhook

\* Lines 217-233: the idempotency pre-check and its duplicate branch.
CheckExists(r, available) ==
    /\ req[r].pc = "exists"
    /\ LET is_duplicate == message_exists(messages, Parse(req[r].raw_body).message_id, available)
       IN  IF is_duplicate
           THEN /\ req' = [Finish(r, DuplicateResponse) EXCEPT ![r].is_duplicate = Some(TRUE)]
                /\ webhook_requests' = record_webhook_result(webhook_requests, "duplicate")
                /\ recorded' = [recorded EXCEPT ![r] = Append(@, "duplicate")]
           ELSE /\ req' = [req EXCEPT ![r].pc = "insert", ![r].is_duplicate = Some(FALSE)]
                /\ UNCHANGED <<webhook_requests, recorded>>
    /\ faulted' = [faulted EXCEPT ![r] = IF available THEN @ ELSE @ \cup {"message_exists"}]
    /\ hidden' = [hidden EXCEPT ![r] = ~available /\ HasRow(messages, Parse(req[r].raw_body).message_id)]
    /\ UNCHANGED <<secret, messages, clock, added>>
    /\ UNCHANGED besidesWebhook

\* Lines 235-243: the call of insert_message.
Insert(r, available) ==
    /\ req[r].pc = "insert"
    /\ LET res == insert_message(messages, MessageRow(Parse(req[r].raw_body), clock), available)
       IN  /\ messages' = res.table
           /\ added' = [added EXCEPT ![r] = @ + Len(res.table) - Len(messages)]
           /\ req' = [req EXCEPT ![r].pc = "respond", ![r].success = Some(res.success)]
    /\ clock' = clock + 1
    /\ faulted' = [faulted EXCEPT ![r] = IF available THEN @ ELSE @ \cup {"insert_message"}]
    /\ UNCHANGED <<secret, webhook_requests, recorded, hidden>>
    /\ UNCHANGED besidesWebhook

\* Lines 245-272: the result of the insert is recorded and answered.
Respond(r) ==
    /\ req[r].pc = "respond"
    /\ LET success == Val(req[r].success)
       IN  /\ webhook_requests' = record_webhook_result(webhook_requests, insert_result(success))
           /\ recorded' = [recorded EXCEPT ![r] = Append(@, insert_result(success))]
           /\ req' = Finish(r, InsertedResponse(success))
    /\ UNCHANGED <<secret, messages, clock, added, faulted, hidden>>
    /\ UNCHANGED besidesWebhook

Next ==
    \/ \E r \in Reqs : \E raw \in Range(RawBodies) : \E sig \in Signatures(raw) : Receive(r, raw, sig)
    \/ \E r \in Reqs : VerifySignature(r)
    \/ \E r \in Reqs : \E available \in BOOLEAN : CheckExists(r, available)
    \/ \E r \in Reqs : \E available \in BOOLEAN : Insert(r, available)
    \/ \E r \in Reqs : Respond(r)

Spec == Init /\ [][Next]_vars

\* The validation of the fields on its own: one request, drawn from all the
\* bodies of the model, unsigned or signed under "k1".
NextV ==
    \/ \E raw \in Range(AllBodies) : \E sig \in {None, Some(HmacHex("k1", raw))} : Receive(1, raw, sig)
    \/ VerifySignature(1)
    \/ \E available \in BOOLEAN : CheckExists(1, available)
    \/ \E available \in BOOLEAN : Insert(1, available)
    \/ Respond(1)

SpecV == Init /\ [][NextV]_vars

TypeOK ==
    /\ webhook_requests \in [ResultKeys -> Nat]
    /\ \A r \in Reqs : req[r].pc \in {"idle", "verify", "exists", "insert", "respond", "done"}

--------------------------------------------------------------------------
(* Vocabulary of the properties *)

Done(r) == req[r].pc = "done"
Received == {r \in Reqs : req[r].pc # "idle"}
Body(r) == Parse(req[r].raw_body)
\* The raw bodies of the model that pass the validation of MessageRequest.
WellFormedBodies == {b \in Range(AllBodies) : MessageRequest(Parse(b))}
WellFormed(r) == req[r].raw_body \in WellFormedBodies
\* The header is the lowercase hex HMAC of the raw body under the configured secret.
ValidlySigned(r) ==
    /\ secret # None
    /\ req[r].x_signature = Some(HmacHex(Val(secret), req[r].raw_body))
Rejected(r) == req[r].status \in {401, 422}
NoFault(r) == faulted[r] = {}
RowsOf(message_id) == {i \in 1..Len(messages) : messages[i].message_id = message_id}
MessageIds == {RawBodies[i].message_id : i \in 1..Len(RawBodies)}

--------------------------------------------------------------------------
(* Properties *)

\* A request that is well-formed, validly signed and carries message_id.
Carries(r, message_id) ==
    /\ req[r].pc # "idle"
    /\ Body(r).message_id = message_id
    /\ ValidlySigned(r)
    /\ WellFormed(r)

\* Requests a and b are the only two valid requests for their message_id (so
\* neither found it stored beforehand), both are answered, and no store
\* operation of either hit a backend failure.
RacedPair(a, b) ==
    /\ a # b
    /\ Done(a) /\ Done(b)
    /\ NoFault(a) /\ NoFault(b)
    /\ Carries(a, Body(a).message_id)
    /\ Carries(b, Body(a).message_id)
    /\ \A c \in Reqs \ {a, b} : ~Carries(c, Body(a).message_id)

\* C1: when exactly two well-formed, validly signed requests carry a
\* message_id, both have been answered and no store operation of either hit
\* a backend failure, then whatever the interleaving was the table holds
\* exactly one row for the id, one of the two recorded "created", the other
\* "duplicate", and both were answered 200.
C1_ConcurrentSameId ==
    \A a \in Reqs : \A b \in Reqs :
        RacedPair(a, b) =>
            /\ Cardinality(RowsOf(Body(a).message_id)) = 1
            /\ req[a].status = 200 /\ req[b].status = 200
            /\ {recorded[a], recorded[b]} = {<<"created">>, <<"duplicate">>}

\* Two such requests are done and one of them lost the race: its pre-check
\* saw no row and its INSERT hit the uniqueness constraint.
C1_Witness ==
    \E a \in Reqs : \E b \in Reqs :
        /\ RacedPair(a, b)
        /\ req[b].is_duplicate = Some(FALSE)
        /\ req[b].success = Some(FALSE)

\* C2: the table never holds two rows with the same message_id.
C2_OneRowPerId ==
    \A i \in 1..Len(messages) : \A j \in 1..Len(messages) :
        messages[i].message_id = messages[j].message_id => i = j

\* The pre-check of a request failed while its id was stored, the request
\* went on to insert, and the insert itself did not fail.
C2_Witness ==
    \E r \in Reqs :
        /\ hidden[r]
        /\ req[r].success # None
        /\ "insert_message" \notin faulted[r]

\* C3: when N >= 1 requests were received, all with the same well-formed body
\* and its valid signature, all are answered and no store operation failed,
\* then the table holds exactly one row, every response is 200, the
\* "created" counter is 1 and the "duplicate" counter is N - 1.
C3_Idempotent ==
    LET N == Cardinality(Received)
    IN  (/\ N >= 1
         /\ \A r \in Received :
               /\ Done(r) /\ NoFault(r)
               /\ req[r].raw_body = req[1].raw_body
               /\ ValidlySigned(r) /\ WellFormed(r)) =>
            /\ Len(messages) = 1
            /\ \A r \in Received : req[r].status = 200
            /\ webhook_requests["created"] = 1
            /\ webhook_requests["duplicate"] = N - 1

\* Every request of the model carried the same valid payload and is answered.
C3_Witness ==
    /\ Received = Reqs
    /\ \A r \in Reqs :
          /\ Done(r) /\ NoFault(r)
          /\ req[r].raw_body = req[1].raw_body
          /\ ValidlySigned(r) /\ WellFormed(r)

\* C4: once the handler has decided on the signature of a well-formed
\* request, the request is past verification exactly if its X-Signature is
\* the lowercase hex HMAC of its raw body under the configured secret.
C4_SignatureIff ==
    \A r \in Reqs :
        (req[r].pc \notin {"idle", "verify"} /\ WellFormed(r)) =>
            (~Rejected(r) <=> ValidlySigned(r))

\* One request was accepted, and one that carried the digest of the same
\* message in another formatting (other bytes) was rejected.
C4_Witness ==
    /\ \E r \in Reqs : req[r].pc = "exists" /\ ValidlySigned(r)
    /\ \E r \in Reqs :
          /\ Rejected(r) /\ WellFormed(r) /\ secret # None
          /\ req[r].raw_body # Reserialize(req[r].raw_body)
          /\ req[r].x_signature = Some(HmacHex(Val(secret), Reserialize(req[r].raw_body)))

IsHexChar(c) == c \in Digits \cup {"a", "b", "c", "d", "e", "f", "A", "B", "C", "D", "E", "F"}

AbsentEmptyOrMalformed(sig) ==
    \/ sig = None
    \/ Val(sig) = <<>>
    \/ Len(Val(sig)) # Len(HmacHex("k1", RawBodies[1]))
    \/ \E i \in 1..Len(Val(sig)) : ~IsHexChar(Val(sig)[i])

\* C5: with a secret configured, a well-formed request whose X-Signature is
\* absent, empty or malformed (wrong length, non-hex or non-ASCII) is
\* answered 401 "invalid signature" and recorded as "invalid_signature".
C5_MalformedIs401 ==
    \A r \in Reqs :
        (Done(r) /\ WellFormed(r) /\ secret # None /\ AbsentEmptyOrMalformed(req[r].x_signature)) =>
            /\ req[r].status = 401
            /\ req[r].content = "detail: invalid signature"
            /\ recorded[r] = <<"invalid_signature">>

\* C6: a request answered 200 has a row with its message_id in the table.
C6_OkMeansStored ==
    \A r \in Reqs : req[r].status = 200 => HasRow(messages, Body(r).message_id)

\* C7: a request adds no row or one row to the table, and a request answered
\* 401 or 422 has added none.
C7_ZeroOrOneRow ==
    \A r \in Reqs :
        /\ added[r] \in {0, 1}
        /\ Rejected(r) => added[r] = 0

\* One request added a row and another was answered 401 or 422.
C7_Witness ==
    /\ \E r \in Reqs : added[r] = 1
    /\ \E r \in Reqs : Done(r) /\ Rejected(r)

\* C8: every answered request that is well-formed and validly signed got
\* status 200 and the body {"status": "ok"}, whether its id was stored or not.
C8_UniformResponse ==
    \A r \in Reqs :
        (Done(r) /\ ValidlySigned(r) /\ WellFormed(r)) =>
            (req[r].status = 200 /\ req[r].content = "status: ok")

\* Two such requests are answered: one whose id was not stored (it created
\* the row) and one whose pre-check found the id stored.
C8_Witness ==
    \E r \in Reqs : \E q \in Reqs :
        /\ Done(r) /\ ValidlySigned(r) /\ recorded[r] = <<"created">>
        /\ Done(q) /\ ValidlySigned(q) /\ req[q].is_duplicate = Some(TRUE)

\* C9: every row of the table is in the table, with the same fields, after
\* every step.
C9_RowsImmutable ==
    [][\A i \in 1..Len(messages) : \E j \in 1..Len(messages') : messages'[j] = messages[i]]_vars

\* A request whose fields differ from the stored row of its id had its
\* INSERT executed by the store, and the stored row is still the other one.
C9_Witness ==
    \E r \in Reqs :
        /\ Done(r)
        /\ req[r].success # None
        /\ "insert_message" \notin faulted[r]
        /\ \E i \in 1..Len(messages) :
              /\ messages[i].message_id = Body(r).message_id
              /\ messages[i].from_msisdn # Body(r).from_msisdn

\* The result key that names the branch a request ended in.
BranchKey(r) ==
    CASE req[r].status = 422 -> "validation_error"
      [] req[r].status = 401 -> "invalid_signature"
      [] OTHER -> IF added[r] = 1 THEN "created" ELSE "duplicate"

\* C10: every answered request incremented exactly one result counter, the
\* one that names the branch it ended in.
C10_OneCounterPerRequest ==
    \A r \in Reqs : Done(r) => recorded[r] = <<BranchKey(r)>>


--------------------------------------------------------------------------
(* The field constraints as the data model states them *)

\* '+' followed by one or more of the digits 0-9, and nothing else.
IsE164(v) ==
    /\ Len(v) >= 2
    /\ v[1] = "+"
    /\ \A i \in 2..Len(v) : v[i] \in Digits

\* YYYY-MM-DDTHH:MM:SSZ, twenty characters.
IsIsoUtc(v) ==
    /\ Len(v) = 20
    /\ \A i \in {1, 2, 3, 4, 6, 7, 9, 10, 12, 13, 15, 16, 18, 19} : v[i] \in Digits
    /\ v[5] = "-" /\ v[8] = "-" /\ v[11] = "T"
    /\ v[14] = ":" /\ v[17] = ":" /\ v[20] = "Z"

SatisfiesConstraints(b) ==
    /\ Len(b.message_id) >= 1
    /\ IsE164(b.from_msisdn)
    /\ IsE164(b.to_msisdn)
    /\ IsIsoUtc(b.ts)
    /\ (b.text = None \/ Len(Val(b.text)) <= MaxTextLen)

\* The bodies of the model that break a field constraint.
ViolatingBodies == {b \in Range(AllBodies) : ~SatisfiesConstraints(Parse(b))}

\* C11: an answered request whose payload breaks a field constraint was
\* answered 422, also when its signature is the valid one for its raw bytes.
C11_ViolationIs422 ==
    \A r \in Reqs :
        (Done(r) /\ req[r].raw_body \in ViolatingBodies /\ ValidlySigned(r)) =>
            req[r].status = 422

--------------------------------------------------------------------------
(* GET /messages *)

\* The characters of the model in code-point order: TEXT columns are
\* compared by the engine's BINARY collation, byte by byte.
Alphabet == <<"\n", "%", "+", "-", "0", "1", "2", "3", "4", "5", "6", "7", "8", "9", ":",
              "A", "B", "C", "D", "E", "F", "H", "I", "T", "Z", "_",
              "a", "b", "c", "d", "e", "f", "h", "i", "m", "o", "y", "z", "U+00E9", "U+0663">>

Ord(c) == Code(Alphabet, c)

\* a < b, byte by byte; a proper prefix is smaller.
LexLess(a, b) ==
    \E k \in 1..Len(b) :
        /\ k - 1 <= Len(a)
        /\ \A j \in 1..(k - 1) : a[j] = b[j]
        /\ (k > Len(a) \/ Ord(a[k]) < Ord(b[k]))

LexLessEq(a, b) == a = b \/ LexLess(a, b)

\* Python truthiness of an Optional[str]: None and "" are false.
Truthy(o) == o # None /\ Val(o) # <<>>

\* LIKE folds the case of ASCII letters.
Lower(c) ==
    CASE c = "A" -> "a" [] c = "B" -> "b" [] c = "C" -> "c" [] c = "D" -> "d"
      [] c = "E" -> "e" [] c = "F" -> "f" [] c = "H" -> "h" [] c = "I" -> "i"
      [] c = "T" -> "t" [] c = "Z" -> "z"
      [] OTHER -> c

\* The engine's LIKE: % matches any run of characters, _ any one character,
\* every other character itself up to ASCII case.
RECURSIVE like(_, _)
like(pattern, text) ==
    IF pattern = <<>> THEN text = <<>>
    ELSE IF Head(pattern) = "%"
         THEN like(Tail(pattern), text) \/ (text # <<>> /\ like(pattern, Tail(text)))
    ELSE /\ text # <<>>
         /\ (Head(pattern) = "_" \/ Lower(Head(pattern)) = Lower(Head(text)))
         /\ like(Tail(pattern), Tail(text))

\* Lines 83-101: one condition per truthy filter, joined by AND.  A NULL
\* text never satisfies LIKE.
where_clause(row, from_msisdn, since, q) ==
    /\ Truthy(from_msisdn) => row.from_msisdn = Val(from_msisdn)
    /\ Truthy(since) => LexLessEq(Val(since), row.ts)
    /\ Truthy(q) => (row.text # None /\ like(<<"%">> \o Val(q) \o <<"%">>, Val(row.text)))

Where(table, f) ==
    SelectSeq(table, LAMBDA row : where_clause(row, f.from_param, f.since, f.q))

\* Variant: ORDER BY ts ASC alone.
RowBefore_ts_only(a, b) == LexLess(a.ts, b.ts)

\* ORDER BY ts ASC, message_id ASC.
RowBefore(a, b) ==
    LexLess(a.ts, b.ts) \/ (a.ts = b.ts /\ LexLess(a.message_id, b.message_id))

RECURSIVE InsertSorted(_, _)
InsertSorted(row, sorted) ==
    IF sorted = <<>> THEN <<row>>
    ELSE IF RowBefore(row, Head(sorted)) THEN <<row>> \o sorted
    ELSE <<Head(sorted)>> \o InsertSorted(row, Tail(sorted))

RECURSIVE OrderBy(_)
OrderBy(rows) ==
    IF rows = <<>> THEN <<>> ELSE InsertSorted(Head(rows), OrderBy(Tail(rows)))

Min(a, b) == IF a <= b THEN a ELSE b
Max(a, b) == IF a >= b THEN a ELSE b

\* Variant: the offset is taken as the position of the first row.
LimitOffset_from_position(rows, limit, offset) ==
    IF offset > Len(rows) THEN <<>>
    ELSE SubSeq(rows, Max(offset, 1), Min(Max(offset, 1) + limit - 1, Len(rows)))

\* LIMIT ? OFFSET ?
LimitOffset(rows, limit, offset) ==
    IF offset >= Len(rows) THEN <<>>
    ELSE SubSeq(rows, offset + 1, Min(offset + limit, Len(rows)))

\* Lines 103-106: SELECT COUNT(*) FROM messages WHERE ...
count_query(table, f) == Len(Where(table, f))

\* Lines 108-117: the selected columns of the page.
Columns(row) ==
    [message_id |-> row.message_id, from_msisdn |-> row.from_msisdn,
     to_msisdn |-> row.to_msisdn, ts |-> row.ts, text |-> row.text]

page_query(table, f, limit, offset) ==
    LET rows == LimitOffset(OrderBy(Where(table, f)), limit, offset)
    IN  [i \in 1..Len(rows) |-> Columns(rows[i])]

\* main.py lines 303-313: the response entry of a row.
Datum(msg) ==
    [message_id |-> msg.message_id, from |-> msg.from_msisdn, to |-> msg.to_msisdn,
     ts |-> msg.ts, text |-> msg.text]

\* limit: int = Query(50, ge=1, le=100), offset: int = Query(0, ge=0)
MinLimit == 1
MaxLimit == 100
MinOffset == 0

\* Variant: the limit has no upper bound.
QueryParamsValid_no_le(limit, offset) == limit >= MinLimit /\ offset >= MinOffset

QueryParamsValid(limit, offset) ==
    limit >= MinLimit /\ limit <= MaxLimit /\ offset >= MinOffset

\* A request arrives; the framework validates limit and offset and calls the
\* handler only when they are valid.
ListReceive(limit, offset, f) ==
    /\ lst.pc = "idle"
    /\ LET arrived == [lst EXCEPT !.limit = limit, !.offset = offset,
                                  !.from_param = f.from_param, !.since = f.since, !.q = f.q]
       IN  IF QueryParamsValid(limit, offset)
           THEN lst' = [arrived EXCEPT !.pc = "count"]
           ELSE lst' = [arrived EXCEPT !.pc = "done", !.status = UnprocessableResponse.status]
    /\ UNCHANGED messages
    /\ UNCHANGED besidesList

\* What the endpoint answers from the pair the storage call returned.
ListAnswer(call, msgs, total) ==
    [call EXCEPT !.pc = "done", !.status = 200,
                 !.data = [i \in 1..Len(msgs) |-> Datum(msgs[i])], !.total = total,
                 !.resp_limit = call.limit, !.resp_offset = call.offset]

\* storage.py lines 103-106, the count statement; a backend failure takes
\* the  except Exception  of lines 124-125, which returns ([], 0).
ListCount(available) ==
    /\ lst.pc = "count"
    /\ IF available
       THEN lst' = [lst EXCEPT !.pc = "fetch", !.count = count_query(messages, lst),
                               !.counted = messages, !.reads = @ + 1]
       ELSE lst' = ListAnswer([lst EXCEPT !.failed = TRUE, !.reads = @ + 1], <<>>, 0)
    /\ UNCHANGED messages
    /\ UNCHANGED besidesList

\* storage.py lines 108-123, the page statement, and the answer of the
\* endpoint.
ListFetch(available) ==
    /\ lst.pc = "fetch"
    /\ IF available
       THEN lst' = ListAnswer([lst EXCEPT !.fetched = messages, !.reads = @ + 1],
                              page_query(messages, lst, lst.limit, lst.offset), lst.count)
       ELSE lst' = ListAnswer([lst EXCEPT !.failed = TRUE, !.reads = @ + 1], <<>>, 0)
    /\ UNCHANGED messages
    /\ UNCHANGED besidesList

\* The rows a store may hold when the call starts, and the tables made of
\* them in every insertion order.
MaxRows == 3

StoredBodies == <<
    RawBodies[1],
    RawBodies[4],
    Raw(<<"m", "3">>, <<"+", "3">>, <<"+", "2">>, Ts("1"), None, 0),
    Raw(<<"m", "0">>, <<"+", "1">>, <<"+", "2">>, Ts("2"), Some(<<"H", "_", "i">>), 0)
>>

RECURSIVE Stamp(_, _)
Stamp(bodies, created_at) ==
    IF bodies = <<>> THEN <<>>
    ELSE <<MessageRow(Parse(Head(bodies)), created_at)>> \o Stamp(Tail(bodies), created_at + 1)

Tables ==
    {Stamp(bodies, 0) :
        bodies \in {t \in UNION {[1..n -> Range(StoredBodies)] : n \in 0..MaxRows} :
                        \A i, j \in 1..Len(t) : i # j => t[i] # t[j]}}

\* The query strings of the model.
Paging == {0, 1, 2, MaxLimit, MaxLimit + 1} \X {0 - 1, 0, 1}

Filter(from, since, q) == [from_param |-> from, since |-> since, q |-> q]

Filters == {
    Filter(None, None, None),
    Filter(Some(<<"+", "1">>), None, None),
    Filter(None, Some(Ts("1")), None),
    Filter(None, None, Some(<<"h">>)),
    Filter(None, None, Some(<<"_">>)),
    Filter(Some(<<"+", "1">>), Some(Ts("1")), Some(<<"i">>)),
    Filter(Some(<<>>), None, None)}

\* A webhook request that passed the pre-check and is about to insert.
Inserting(raw) ==
    [IdleReq EXCEPT !.pc = "insert", !.raw_body = raw,
                    !.x_signature = Some(HmacHex("k1", raw)), !.is_duplicate = Some(FALSE)]

\* The listing against a populated store, with one webhook request in flight.
InitQ ==
    /\ secret = Some("k1")
    /\ messages \in Tables
    /\ clock = Len(messages)
    /\ webhook_requests = [k \in ResultKeys |-> 0]
    /\ req = [r \in Reqs |-> IF r = 1 THEN Inserting(RawBodies[3]) ELSE IdleReq]
    /\ recorded = [r \in Reqs |-> <<>>]
    /\ added = [r \in Reqs |-> 0]
    /\ faulted = [r \in Reqs |-> {}]
    /\ hidden = [r \in Reqs |-> FALSE]
    /\ lst = IdleList
    /\ sts = [c \in StatsCalls |-> IdleStats]
    /\ database_url = DefaultDatabaseUrl
    /\ db = init_db(DefaultDatabaseUrl, NoDatabase)
    /\ probe = [p \in Probes |-> IdleProbe]
    /\ http_requests = [key \in HttpKeys |-> 0]
    /\ lock = None
    /\ thread = [t \in Threads |-> IdleThread]
    /\ calls = NoCalls
    /\ pager = IdlePager

NextQ ==
    \/ \E p \in Paging : \E f \in Filters : ListReceive(p[1], p[2], f)
    \/ \E available \in BOOLEAN : ListCount(available)
    \/ \E available \in BOOLEAN : ListFetch(available)
    \/ \E available \in BOOLEAN : Insert(1, available)
    \/ Respond(1)

SpecQ == InitQ /\ [][NextQ]_vars

--------------------------------------------------------------------------
(* Properties of GET /messages *)

\* The call was answered by the handler, no statement failed, and both
\* statements saw the same rows.
ListedFrom(table) ==
    /\ lst.pc = "done" /\ lst.status = 200 /\ ~lst.failed
    /\ lst.counted = table /\ lst.fetched = table

\* The positions of the rows of the table that the engine's WHERE selects.
Selected(table) ==
    {i \in 1..Len(table) : where_clause(table[i], lst.from_param, lst.since, lst.q)}

\* (ts ascending, message_id ascending), both compared as text.
SortsBefore(a, b) ==
    LexLess(a.ts, b.ts) \/ (a.ts = b.ts /\ LexLess(a.message_id, b.message_id))

\* The number of selected rows that sort before the row at position i.
Rank(table, i) ==
    Cardinality({j \in Selected(table) : SortsBefore(table[j], table[i])})

\* C12: when both statements of a call saw the same rows and none failed,
\* total is the number of filtered rows and the k-th entry of the page is the
\* filtered row with exactly offset+k-1 filtered rows before it in
\* (ts, message_id) order, for k up to limit or to the end of the filtered
\* rows; this fixes the result by the set of rows, whatever their insertion
\* order.
C12_PageIsSortedSlice ==
    LET table == lst.counted
    IN  ListedFrom(table) =>
            /\ lst.total = Cardinality(Selected(table))
            /\ Len(lst.data) = Max(0, Min(lst.limit, Cardinality(Selected(table)) - lst.offset))
            /\ \A k \in 1..Len(lst.data) :
                   \E i \in Selected(table) :
                       /\ lst.data[k] = Datum(table[i])
                       /\ Rank(table, i) = lst.offset + k - 1

\* A page of two rows from offset 1, taken from a table in which the later
\* of the two was inserted first.
C12_Witness ==
    /\ ListedFrom(lst.counted)
    /\ lst.offset = 1 /\ Len(lst.data) = 2 /\ lst.total >= 3
    /\ \E i, j \in 1..Len(lst.counted) :
           /\ i < j
           /\ lst.data[1] = Datum(lst.counted[j])
           /\ lst.data[2] = Datum(lst.counted[i])

\* A filter is supplied when the query string carries the parameter.
Supplied(o) == o # None

\* q occurs in text as a substring, letters compared up to ASCII case (the
\* engine's default comparison for LIKE).
ContainsText(text, q) ==
    \E i \in 1..(Len(text) - Len(q) + 1) :
        \A j \in 1..Len(q) : Lower(text[i + j - 1]) = Lower(q[j])

\* The row passes every filter that was supplied.
PassesFilters(row) ==
    /\ Supplied(lst.from_param) => row.from_msisdn = Val(lst.from_param)
    /\ Supplied(lst.since) => LexLessEq(Val(lst.since), row.ts)
    /\ Supplied(lst.q) => (row.text # None /\ ContainsText(Val(row.text), Val(lst.q)))

\* C13: when both statements of a call saw the same rows and none failed,
\* total counts exactly the rows that pass every supplied filter (from_msisdn
\* equal to 'from', ts >= 'since' as text, text containing q) and every entry
\* of the page is such a row.
C13_ExactlyThePassingRows ==
    LET table == lst.counted
        passing == {i \in 1..Len(table) : PassesFilters(table[i])}
    IN  ListedFrom(table) =>
            /\ lst.total = Cardinality(passing)
            /\ \A k \in 1..Len(lst.data) : \E i \in passing : lst.data[k] = Datum(table[i])

\* C14: a call that was answered without a failed statement, with a limit
\* that covers every stored row and offset 0, returns no more rows than its
\* total, whatever inserts commit while it runs.
C14_PageWithinTotal ==
    (lst.pc = "done" /\ lst.status = 200 /\ ~lst.failed
        /\ lst.offset = 0 /\ lst.limit >= Len(messages)) =>
        Len(lst.data) <= lst.total

\* C20: an answered GET /messages whose limit is outside 1..100 or whose
\* offset is negative was answered 422 and read nothing from the store; every
\* other answered request was answered 200 with the limit and offset it asked
\* for.
C20_PagingValidated ==
    lst.pc = "done" =>
        IF lst.limit < 1 \/ lst.limit > 100 \/ lst.offset < 0
        THEN lst.status = 422 /\ lst.reads = 0 /\ lst.data = <<>>
        ELSE lst.status = 200 /\ lst.resp_limit = lst.limit /\ lst.resp_offset = lst.offset

\* A request with limit 101 was rejected.
C20_Witness ==
    lst.pc = "done" /\ lst.limit = 101 /\ lst.offset = 0 /\ lst.status = 422

--------------------------------------------------------------------------
(* GET /stats *)

\* SELECT COUNT(*) FROM messages
count_all(table) == Len(table)

\* Variant: COUNT(from_msisdn), without DISTINCT.
count_distinct_senders_plain(table) == Len(table)

\* SELECT COUNT(DISTINCT from_msisdn) FROM messages
count_distinct_senders(table) ==
    Cardinality({table[i].from_msisdn : i \in 1..Len(table)})

\* GROUP BY from_msisdn with COUNT(*): one entry per sender.
group_by_sender(table) ==
    {[from |-> sender,
      count |-> Cardinality({i \in 1..Len(table) : table[i].from_msisdn = sender})] :
        sender \in {table[i].from_msisdn : i \in 1..Len(table)}}

\* ORDER BY count DESC names no second key: the order of senders with equal
\* counts is whatever the engine's plan yields.  The groups come out by
\* sender ascending when they are read off idx_messages_from and by sender
\* descending when the grouping goes through a scan of the table.
Plans == {"sender_asc", "sender_desc"}

EngineBefore(plan, a, b) ==
    \/ a.count > b.count
    \/ /\ a.count = b.count
       /\ IF plan = "sender_asc" THEN LexLess(a.from, b.from) ELSE LexLess(b.from, a.from)

RECURSIVE SortGroups(_, _)
SortGroups(plan, groups) ==
    IF groups = {} THEN <<>>
    ELSE LET first == CHOOSE g \in groups :
                          \A h \in groups \ {g} : EngineBefore(plan, g, h)
         IN  <<first>> \o SortGroups(plan, groups \ {first})

\* LIMIT 10
TopSenders == 10

per_sender_query(table, plan) ==
    LET sorted == SortGroups(plan, group_by_sender(table))
    IN  SubSeq(sorted, 1, Min(TopSenders, Len(sorted)))

\* SELECT MIN(ts), MAX(ts): NULL on an empty table.
RECURSIVE min_ts(_)
min_ts(table) ==
    IF table = <<>> THEN None
    ELSE LET rest == min_ts(Tail(table))
         IN  IF rest = None \/ LexLess(Head(table).ts, Val(rest)) THEN Some(Head(table).ts) ELSE rest

RECURSIVE max_ts(_)
max_ts(table) ==
    IF table = <<>> THEN None
    ELSE LET rest == max_ts(Tail(table))
         IN  IF rest = None \/ LexLess(Val(rest), Head(table).ts) THEN Some(Head(table).ts) ELSE rest

\* Lines 173-180: any exception gives the zero result, which the endpoint
\* answers.
StatsFailed(call) ==
    [call EXCEPT !.pc = "done", !.failed = TRUE,
                 !.total_messages = 0, !.senders_count = 0, !.messages_per_sender = <<>>,
                 !.first_message_ts = None, !.last_message_ts = None]

Saw(call) == [call EXCEPT !.seen = Append(@, Len(messages))]

\* Lines 135-136: the call starts and counts the rows.
StatsTotal(c, available) ==
    /\ sts[c].pc = "idle"
    /\ sts' = [sts EXCEPT ![c] =
                 IF available
                 THEN [Saw(@) EXCEPT !.pc = "senders", !.total_messages = count_all(messages)]
                 ELSE StatsFailed(@)]
    /\ UNCHANGED messages
    /\ UNCHANGED besidesStats

\* Lines 139-140.
StatsSenders(c, available) ==
    /\ sts[c].pc = "senders"
    /\ sts' = [sts EXCEPT ![c] =
                 IF available
                 THEN [Saw(@) EXCEPT !.pc = "per_sender",
                                     !.senders_count = count_distinct_senders(messages)]
                 ELSE StatsFailed(@)]
    /\ UNCHANGED messages
    /\ UNCHANGED besidesStats

\* Lines 142-153.
StatsPerSender(c, available, plan) ==
    /\ sts[c].pc = "per_sender"
    /\ sts' = [sts EXCEPT ![c] =
                 IF available
                 THEN [Saw(@) EXCEPT !.pc = "min_max",
                                     !.messages_per_sender = per_sender_query(messages, plan)]
                 ELSE StatsFailed(@)]
    /\ UNCHANGED messages
    /\ UNCHANGED besidesStats

\* Lines 155-172 and main.py lines 328-342: the last statement, and the
\* answer.
StatsMinMax(c, available) ==
    /\ sts[c].pc = "min_max"
    /\ sts' = [sts EXCEPT ![c] =
                 IF available
                 THEN [Saw(@) EXCEPT !.pc = "done", !.first_message_ts = min_ts(messages),
                                     !.last_message_ts = max_ts(messages)]
                 ELSE StatsFailed(@)]
    /\ UNCHANGED messages
    /\ UNCHANGED besidesStats

\* A store with NumSenders senders of one message each, the last of which
\* sent one more.
NumSenders == 11

Dec == <<"0", "1", "2", "3", "4", "5", "6", "7", "8", "9">>

TwoDigits(i) == <<Dec[((i \div 10) % 10) + 1], Dec[(i % 10) + 1]>>

SenderBody(i, k) ==
    Raw(<<"s">> \o TwoDigits(i) \o <<Dec[k + 1]>>, <<"+">> \o TwoDigits(i), <<"+", "2">>,
        Ts(Dec[(i % 10) + 1]), None, 0)

ManySenders ==
    [i \in 1..NumSenders |-> SenderBody(i, 0)] \o <<SenderBody(NumSenders, 1)>>

Reverse(seq) == [i \in 1..Len(seq) |-> seq[Len(seq) + 1 - i]]

StatsTables ==
    {Stamp(bodies, 0) :
        bodies \in {<<>>, <<StoredBodies[1]>>, <<StoredBodies[1], StoredBodies[3]>>,
                    <<StoredBodies[3], StoredBodies[1]>>,
                    <<StoredBodies[1], StoredBodies[2], StoredBodies[3]>>,
                    ManySenders, Reverse(ManySenders)}}

\* The statistics against a populated store, with one webhook request in
\* flight.
InitS ==
    /\ secret = Some("k1")
    /\ messages \in StatsTables
    /\ clock = Len(messages)
    /\ webhook_requests = [k \in ResultKeys |-> 0]
    /\ req = [r \in Reqs |-> IF r = 1 THEN Inserting(RawBodies[3]) ELSE IdleReq]
    /\ recorded = [r \in Reqs |-> <<>>]
    /\ added = [r \in Reqs |-> 0]
    /\ faulted = [r \in Reqs |-> {}]
    /\ hidden = [r \in Reqs |-> FALSE]
    /\ lst = IdleList
    /\ sts = [c \in StatsCalls |-> IdleStats]
    /\ database_url = DefaultDatabaseUrl
    /\ db = init_db(DefaultDatabaseUrl, NoDatabase)
    /\ probe = [p \in Probes |-> IdleProbe]
    /\ http_requests = [key \in HttpKeys |-> 0]
    /\ lock = None
    /\ thread = [t \in Threads |-> IdleThread]
    /\ calls = NoCalls
    /\ pager = IdlePager

NextS ==
    \/ \E c \in StatsCalls : \E available \in BOOLEAN : StatsTotal(c, available)
    \/ \E c \in StatsCalls : \E available \in BOOLEAN : StatsSenders(c, available)
    \/ \E c \in StatsCalls : \E available \in BOOLEAN : \E plan \in Plans :
           StatsPerSender(c, available, plan)
    \/ \E c \in StatsCalls : \E available \in BOOLEAN : StatsMinMax(c, available)
    \/ \E available \in BOOLEAN : Insert(1, available)
    \/ Respond(1)

SpecS == InitS /\ [][NextS]_vars

--------------------------------------------------------------------------
(* Properties of GET /stats *)

\* The call was answered, no statement failed, and all four statements saw
\* the first n rows of the table.
StatsFrom(c, n) ==
    /\ sts[c].pc = "done" /\ ~sts[c].failed
    /\ sts[c].seen = <<n, n, n, n>>

Stored(n) == SubSeq(messages, 1, n)

\* C15: a get_stats call whose statements all succeeded and saw the same
\* rows returns the number of those rows, the number of distinct senders
\* among them and their least and greatest ts; for no rows it returns 0, 0,
\* an empty per-sender list and absent timestamps.
C15_StatsOfStore ==
    \A c \in StatsCalls : \A n \in 0..Len(messages) :
        StatsFrom(c, n) =>
            LET rows == Stored(n)
                stamps == {rows[i].ts : i \in 1..n}
            IN  /\ sts[c].total_messages = n
                /\ sts[c].senders_count = Cardinality({rows[i].from_msisdn : i \in 1..n})
                /\ IF n = 0
                   THEN /\ sts[c].messages_per_sender = <<>>
                        /\ sts[c].first_message_ts = None
                        /\ sts[c].last_message_ts = None
                   ELSE /\ sts[c].first_message_ts # None
                        /\ sts[c].last_message_ts # None
                        /\ Val(sts[c].first_message_ts) \in stamps
                        /\ Val(sts[c].last_message_ts) \in stamps
                        /\ \A t \in stamps :
                               /\ LexLessEq(Val(sts[c].first_message_ts), t)
                               /\ LexLessEq(t, Val(sts[c].last_message_ts))

\* One call saw the empty store and, after an insert, another saw one row.
C15_Witness ==
    \E c, d \in StatsCalls :
        /\ StatsFrom(c, 0) /\ sts[c].first_message_ts = None
        /\ StatsFrom(d, 1) /\ sts[d].senders_count = 1 /\ sts[d].first_message_ts # None

RowsFrom(rows, sender) == Cardinality({i \in 1..Len(rows) : rows[i].from_msisdn = sender})

\* The list has at most 10 entries, one per sender, each with the sender's
\* exact row count, in descending order of count, and no sender left out has
\* more rows than a listed one.
TopOfStore(list, rows) ==
    LET senders == {rows[i].from_msisdn : i \in 1..Len(rows)}
        listed == {list[k].from : k \in 1..Len(list)}
    IN  /\ Len(list) = Min(10, Cardinality(senders))
        /\ Cardinality(listed) = Len(list)
        /\ listed \subseteq senders
        /\ \A k \in 1..Len(list) : list[k].count = RowsFrom(rows, list[k].from)
        /\ \A k \in 1..(Len(list) - 1) : list[k].count >= list[k + 1].count
        /\ \A sender \in senders \ listed :
               \A k \in 1..Len(list) : RowsFrom(rows, sender) <= list[k].count

--------------------------------------------------------------------------
(* GET /health/ready *)

\* Config.validate: (is_valid, error_message).
validate(webhook_secret, url) ==
    IF webhook_secret = None \/ webhook_secret = Some("")
    THEN [is_valid |-> FALSE, error_msg |-> "WEBHOOK_SECRET environment variable is not set"]
    ELSE IF url = ""
    THEN [is_valid |-> FALSE, error_msg |-> "DATABASE_URL environment variable is not set"]
    ELSE [is_valid |-> TRUE, error_msg |-> ""]

\* Variant: only the existence of the file is tested.
check_db_health_file_only(database, available) == database.file

\* models.py check_db_health: the file exists, the connection opens and
\* sqlite_master lists the table  messages; any exception gives False.
check_db_health(database, available) ==
    IF ~database.file THEN FALSE
    ELSE IF ~available THEN FALSE
    ELSE database.table

\* Lines 361-367: the configuration is validated.
HealthValidate(p) ==
    /\ probe[p].pc \in {"idle", "done"}
    /\ LET res == validate(secret, database_url)
       IN  probe' = [probe EXCEPT ![p] =
                        IF res.is_valid
                        THEN [IdleProbe EXCEPT !.pc = "check_db", !.store = db]
                        ELSE [IdleProbe EXCEPT !.pc = "done", !.status = 503,
                                               !.reason = res.error_msg, !.store = db]]
    /\ UNCHANGED db
    /\ UNCHANGED besidesHealth

\* Lines 369-379: the database is checked and the probe answered.
HealthCheckDb(p, available) ==
    /\ probe[p].pc = "check_db"
    /\ probe' = [probe EXCEPT ![p] =
                    IF check_db_health(db, available)
                    THEN [@ EXCEPT !.pc = "done", !.status = 200,
                                   !.store = db, !.reachable = available]
                    ELSE [@ EXCEPT !.pc = "done", !.status = 503, !.reason = "database not ready",
                                   !.store = db, !.reachable = available]]
    /\ UNCHANGED db
    /\ UNCHANGED besidesHealth

\* The application (re)starts: lifespan runs init_db.
Startup ==
    /\ db' = init_db(database_url, db)
    /\ db' # db
    /\ UNCHANGED probe
    /\ UNCHANGED besidesHealth

\* The database file is replaced by an empty one, or removed.
DatabaseLost(file) ==
    /\ db' = [file |-> file, table |-> FALSE]
    /\ db' # db
    /\ UNCHANGED probe
    /\ UNCHANGED besidesHealth

\* The probe under every configuration and every state of the file.
InitH ==
    /\ secret \in {None, Some(""), Some("k1")}
    /\ messages = <<>>
    /\ clock = 0
    /\ webhook_requests = [k \in ResultKeys |-> 0]
    /\ req = [r \in Reqs |-> IdleReq]
    /\ recorded = [r \in Reqs |-> <<>>]
    /\ added = [r \in Reqs |-> 0]
    /\ faulted = [r \in Reqs |-> {}]
    /\ hidden = [r \in Reqs |-> FALSE]
    /\ lst = IdleList
    /\ sts = [c \in StatsCalls |-> IdleStats]
    /\ database_url \in {"", DefaultDatabaseUrl}
    /\ db \in {NoDatabase, [file |-> TRUE, table |-> FALSE], init_db(database_url, NoDatabase)}
    /\ probe = [p \in Probes |-> IdleProbe]
    /\ http_requests = [key \in HttpKeys |-> 0]
    /\ lock = None
    /\ thread = [t \in Threads |-> IdleThread]
    /\ calls = NoCalls
    /\ pager = IdlePager

NextH ==
    \/ \E p \in Probes : HealthValidate(p)
    \/ \E p \in Probes : \E available \in BOOLEAN : HealthCheckDb(p, available)
    \/ Startup
    \/ \E file \in BOOLEAN : DatabaseLost(file)

SpecH == InitH /\ [][NextH]_vars

--------------------------------------------------------------------------
(* Properties of GET /health/ready *)

\* C17: an answered readiness probe was answered 200 exactly when a
\* non-empty secret is configured and, when the probe looked, the database
\* file was there, could be opened and held the messages table; every other
\* answer is 503 with a non-empty reason.
C17_ReadyIff ==
    \A p \in Probes :
        probe[p].pc = "done" =>
            /\ probe[p].status = 200 <=>
                   (secret \notin {None, Some("")}
                        /\ probe[p].store.file /\ probe[p].store.table /\ probe[p].reachable)
            /\ probe[p].status # 200 => (probe[p].status = 503 /\ probe[p].reason # "")

\* With a secret set, one probe was answered 200 and another 503 for a file
\* without the table.
C17_Witness ==
    \E p, o \in Probes :
        /\ secret = Some("k1")
        /\ probe[p].pc = "done" /\ probe[p].status = 200
        /\ probe[o].pc = "done" /\ probe[o].status = 503
        /\ probe[o].store.file /\ ~probe[o].store.table /\ probe[o].reachable

--------------------------------------------------------------------------
(* MetricsCollector *)

\* Variant: the counters are updated without taking the lock.
lock_free_unguarded(holder) == TRUE

\* threading.Lock: it can be taken when nobody holds it.
lock_free(holder) == holder = None

\* The calls made in a run of the model.
MaxCalls == 3

\* A request thread calls record_webhook_result(result).
CallRecordWebhookResult(t, result) ==
    /\ thread[t].pc = "idle" /\ calls.total < MaxCalls
    /\ thread' = [thread EXCEPT ![t] = [@ EXCEPT !.pc = "acquire", !.counter = "webhook_requests",
                                                 !.result = result]]
    /\ calls' = [calls EXCEPT !.webhook_requests[result] = @ + 1, !.total = @ + 1]
    /\ UNCHANGED <<webhook_requests, http_requests, lock>>
    /\ UNCHANGED besidesCollector

\* A request thread calls record_http_request(path, status).
CallRecordHttpRequest(t, key) ==
    /\ thread[t].pc = "idle" /\ calls.total < MaxCalls
    /\ thread' = [thread EXCEPT ![t] = [@ EXCEPT !.pc = "acquire", !.counter = "http_requests",
                                                 !.key = key]]
    /\ calls' = [calls EXCEPT !.http_requests[key] = @ + 1, !.total = @ + 1]
    /\ UNCHANGED <<webhook_requests, http_requests, lock>>
    /\ UNCHANGED besidesCollector

\* with self._lock:  entry.
Acquire(t) ==
    /\ thread[t].pc = "acquire"
    /\ lock_free(lock)
    /\ lock' = Some(t)
    /\ thread' = [thread EXCEPT ![t].pc = "get"]
    /\ UNCHANGED <<webhook_requests, http_requests, calls>>
    /\ UNCHANGED besidesCollector

\* The right-hand side  self.<counter>.get(key, 0) + 1  reads the entry.
Get(t) ==
    /\ thread[t].pc = "get"
    /\ thread' = [thread EXCEPT ![t].pc = "put",
                                ![t].got = IF thread[t].counter = "webhook_requests"
                                           THEN webhook_requests[thread[t].result]
                                           ELSE http_requests[thread[t].key]]
    /\ UNCHANGED <<webhook_requests, http_requests, lock, calls>>
    /\ UNCHANGED besidesCollector

\* The assignment stores the value read plus one.
Put(t) ==
    /\ thread[t].pc = "put"
    /\ IF thread[t].counter = "webhook_requests"
       THEN /\ webhook_requests' = [webhook_requests EXCEPT ![thread[t].result] = thread[t].got + 1]
            /\ UNCHANGED http_requests
       ELSE /\ http_requests' = [http_requests EXCEPT ![thread[t].key] = thread[t].got + 1]
            /\ UNCHANGED webhook_requests
    /\ thread' = [thread EXCEPT ![t].pc = "release"]
    /\ UNCHANGED <<lock, calls>>
    /\ UNCHANGED besidesCollector

\* with self._lock:  exit.
Release(t) ==
    /\ thread[t].pc = "release"
    /\ lock' = IF lock = Some(t) THEN None ELSE lock
    /\ thread' = [thread EXCEPT ![t] = IdleThread]
    /\ UNCHANGED <<webhook_requests, http_requests, calls>>
    /\ UNCHANGED besidesCollector

NextM ==
    \/ \E t \in Threads : \E result \in ResultKeys : CallRecordWebhookResult(t, result)
    \/ \E t \in Threads : \E key \in HttpKeys : CallRecordHttpRequest(t, key)
    \/ \E t \in Threads : Acquire(t)
    \/ \E t \in Threads : Get(t)
    \/ \E t \in Threads : Put(t)
    \/ \E t \in Threads : Release(t)

\* A fresh collector in a configured application.
InitM ==
    /\ Init
    /\ secret = Some("k1")

SpecM == InitM /\ [][NextM]_vars

--------------------------------------------------------------------------
(* Properties of the collector *)

\* The calls of a counter and key that have not stored their increment yet.
Pending(counter, result, key) ==
    Cardinality({t \in Threads :
                    /\ thread[t].pc \in {"acquire", "get", "put"}
                    /\ thread[t].counter = counter
                    /\ thread[t].result = result
                    /\ thread[t].key = key})

RECURSIVE SumOver(_, _)
SumOver(f, keys) ==
    IF keys = {} THEN 0
    ELSE LET k == CHOOSE k \in keys : TRUE IN f[k] + SumOver(f, keys \ {k})

\* C18: every key's value is the number of calls made with that key less the
\* calls that have not yet stored their increment; so once the K calls made
\* are all through, each key's value is the number of calls with that key and
\* the values add up to K.
C18_NoLostUpdate ==
    /\ \A result \in ResultKeys :
           webhook_requests[result] + Pending("webhook_requests", result, <<>>)
               = calls.webhook_requests[result]
    /\ \A key \in HttpKeys :
           http_requests[key] + Pending("http_requests", "", key) = calls.http_requests[key]
    /\ (\A t \in Threads : thread[t].pc \in {"idle", "release"}) =>
           SumOver(webhook_requests, ResultKeys) + SumOver(http_requests, HttpKeys) = calls.total

\* All the calls of a run are through, at least two of them with the same
\* key.
C18_Witness ==
    /\ \A t \in Threads : thread[t].pc = "idle"
    /\ calls.total = MaxCalls
    /\ \E result \in ResultKeys : calls.webhook_requests[result] >= 2

--------------------------------------------------------------------------
(* Properties of message_exists *)

\* C19: whenever a request takes the pre-check step, the answer that
\* message_exists returns to it is true exactly when the table holds a row
\* with the request's message_id, whether or not the backend is available.
C19_ExistsIffStored ==
    [][\A r \in Reqs :
          (req[r].pc = "exists" /\ req'[r].pc # "exists") =>
              req'[r].is_duplicate = Some(HasRow(messages, Body(r).message_id))]_vars

--------------------------------------------------------------------------
(* The time of the signature comparison *)

\* A digest with the character at position i replaced by another hex digit.
WrongAt(sig, i) == [sig EXCEPT ![i] = IF @ = "0" THEN "1" ELSE "0"]

\* The headers sent with the first body: its digest, the digest with its
\* first, its second and both characters wrong, and texts of other lengths.
TimingSignatures ==
    LET sig == HmacHex("k1", RawBodies[1])
    IN  {Some(sig), Some(WrongAt(sig, 1)), Some(WrongAt(sig, 2)),
         Some(WrongAt(WrongAt(sig, 1), 2)), Some(SubSeq(sig, 1, 1)), Some(sig \o <<"0">>)}

NextT ==
    \/ \E r \in Reqs : \E sig \in TimingSignatures : Receive(r, RawBodies[1], sig)
    \/ \E r \in Reqs : VerifySignature(r)
    \/ \E r \in Reqs : \E available \in BOOLEAN : CheckExists(r, available)
    \/ \E r \in Reqs : \E available \in BOOLEAN : Insert(r, available)
    \/ \E r \in Reqs : Respond(r)

SpecT == Init /\ [][NextT]_vars

\* The request got as far as the comparison of its header with the digest.
Compared(r) ==
    /\ req[r].pc \notin {"idle", "verify"}
    /\ MessageRequest(Body(r))
    /\ req[r].x_signature # None /\ Val(req[r].x_signature) # <<>>
    /\ secret # None
    /\ IsAscii(Val(req[r].x_signature))

\* The positions the comparison of the request visited.
ComparisonSteps(r) ==
    tscmp(Val(req[r].x_signature), expected_signature(Val(secret), req[r].raw_body)).steps

\* The first position at which the header differs from the digest; 0 when
\* there is none within the shorter of the two.
FirstMismatch(r) ==
    LET a == Val(req[r].x_signature)
        b == expected_signature(Val(secret), req[r].raw_body)
        at == {i \in 1..Min(Len(a), Len(b)) : a[i] # b[i]}
    IN  IF at = {} THEN 0 ELSE CHOOSE i \in at : \A j \in at : i <= j

\* C21: any two requests whose headers were compared with digests of the
\* same length had the same number of positions compared, wherever the first
\* mismatching character is and whether or not there is one.
C21_ConstantTime ==
    \A r, q \in Reqs :
        (Compared(r) /\ Compared(q)
            /\ Len(expected_signature(Val(secret), req[r].raw_body))
                 = Len(expected_signature(Val(secret), req[q].raw_body))) =>
            ComparisonSteps(r) = ComparisonSteps(q)

\* One request whose header is wrong from its first character and one whose
\* header is wrong only at its second were both answered 401.
C21_Witness ==
    \E r, q \in Reqs :
        /\ Compared(r) /\ Compared(q)
        /\ FirstMismatch(r) = 1 /\ FirstMismatch(q) = 2
        /\ req[r].status = 401 /\ req[q].status = 401

--------------------------------------------------------------------------
(* The pre-check against the insert alone *)

\* What a handler without the pre-check does with the request from the
\* current state: the insert, answered and recorded by its result.
ByInsertAlone(r, available) ==
    LET res == insert_message(messages, MessageRow(Body(r), clock), available)
    IN  [table |-> res.table,
         status |-> InsertedResponse(res.success).status,
         content |-> InsertedResponse(res.success).content,
         counters |-> record_webhook_result(webhook_requests, insert_result(res.success))]

\* C22: every pre-check step either changes nothing that can be observed
\* (rows, responses, counters) and hands the request to the insert, as a
\* handler without the pre-check would start, or it ends the request with
\* exactly the rows, the response and the counters that the insert alone
\* gives from the same state, whether or not the backend is available to it.
C22_PreCheckIsOptimization ==
    [][\A r \in Reqs :
          (req[r].pc = "exists" /\ req'[r].pc # "exists") =>
              IF req'[r].pc = "insert"
              THEN /\ messages' = messages
                   /\ webhook_requests' = webhook_requests
                   /\ req'[r].status = req[r].status
                   /\ req'[r].content = req[r].content
              ELSE /\ req'[r].pc = "done"
                   /\ \A available \in BOOLEAN :
                          LET alone == ByInsertAlone(r, available)
                          IN  /\ messages' = alone.table
                              /\ req'[r].status = alone.status
                              /\ req'[r].content = alone.content
                              /\ webhook_requests' = alone.counters]_vars

\* One request was ended by the pre-check, after another had created the row
\* of its id, and one duplicate is counted.
C22_Witness ==
    \E r, q \in Reqs :
        /\ r # q
        /\ added[q] = 1 /\ Done(q)
        /\ Done(r) /\ req[r].is_duplicate = Some(TRUE) /\ req[r].success = None
        /\ Body(r).message_id = Body(q).message_id
        /\ webhook_requests["created"] = 1 /\ webhook_requests["duplicate"] = 1

--------------------------------------------------------------------------
(* A failed insert *)

\* The INSERT of the request failed on the backend, not on the key.
InsertFailed(r) == "insert_message" \in faulted[r]

\* C23: an answered request that is well-formed and validly signed and whose
\* INSERT failed on the backend was answered 200 {"status": "ok"}, recorded
\* 'duplicate' and nothing else, and added no row; unless another request
\* stored its message_id, the table has no row for it.
C23_FailedInsertMasked ==
    \A r \in Reqs :
        (Done(r) /\ WellFormed(r) /\ ValidlySigned(r) /\ InsertFailed(r)) =>
            /\ req[r].status = 200 /\ req[r].content = "status: ok"
            /\ recorded[r] = <<"duplicate">>
            /\ added[r] = 0
            /\ (\A q \in Reqs : added[q] = 1 => Body(q).message_id # Body(r).message_id)
                   => ~HasRow(messages, Body(r).message_id)

\* Such a request was answered while the table has no row of its id.
C23_Witness ==
    \E r \in Reqs :
        /\ Done(r) /\ WellFormed(r) /\ ValidlySigned(r) /\ InsertFailed(r)
        /\ req[r].status = 200
        /\ ~HasRow(messages, Body(r).message_id)

--------------------------------------------------------------------------
(* The order of the steps of a request *)

\* The moves a request may make from one step to the next.
StepOrder ==
    {<<"idle", "verify">>, <<"idle", "done">>, <<"verify", "exists">>, <<"verify", "done">>,
     <<"exists", "insert">>, <<"exists", "done">>, <<"insert", "respond">>, <<"respond", "done">>}

\* C24: a request moves only forward through verify, existence check and
\* insert; its existence check runs only once its signature was found valid,
\* its insert only right after an existence check of its message_id that
\* answered false, and it touches the store (a store call of its own, a row
\* added) in no other step.
C24_StepOrder ==
    [][\A r \in Reqs :
          /\ req'[r].pc # req[r].pc => <<req[r].pc, req'[r].pc>> \in StepOrder
          /\ req'[r].pc = "exists" => ValidlySigned(r) /\ req[r].is_duplicate = None
          /\ req'[r].is_duplicate # req[r].is_duplicate =>
                 (req[r].pc = "exists" /\ ValidlySigned(r))
          /\ req'[r].pc = "insert" =>
                 (req'[r].is_duplicate = Some(FALSE) /\ req'[r].success = None)
          /\ (req'[r].success # req[r].success \/ added'[r] # added[r]) =>
                 (req[r].pc = "insert" /\ req[r].is_duplicate = Some(FALSE))
          /\ faulted'[r] # faulted[r] => req[r].pc \in {"exists", "insert"}
          /\ messages' # messages => \E q \in Reqs : req[q].pc = "insert"]_vars

\* A request went through all the steps and stored its row.
C24_Witness ==
    \E r \in Reqs :
        /\ Done(r) /\ ValidlySigned(r)
        /\ req[r].is_duplicate = Some(FALSE) /\ req[r].success = Some(TRUE)
        /\ added[r] = 1 /\ HasRow(messages, Body(r).message_id)

--------------------------------------------------------------------------
(* The stored rows against the data model *)

\* C25: every row of the table has a non-empty message_id, from_msisdn and
\* to_msisdn of the form '+' and digits 0-9, a ts of the twenty-character
\* form YYYY-MM-DDTHH:MM:SSZ and a text that is absent or of at most 4096
\* characters.
C25_RowsSatisfyDataModel ==
    \A i \in 1..Len(messages) : SatisfiesConstraints(messages[i])

--------------------------------------------------------------------------
(* The 'created' counter against the table *)

InFlight == {r \in Reqs : req[r].pc \notin {"idle", "done"}}

\* C26: the 'created' counter is never greater than the number of rows of
\* the table, and equals it whenever no request is between its arrival and
\* its answer.
C26_CreatedCountsRows ==
    /\ webhook_requests["created"] <= Len(messages)
    /\ InFlight = {} => webhook_requests["created"] = Len(messages)

\* Every request of the run is answered; one stored a row, another met a
\* failed or refused insert.
C26_Witness ==
    /\ InFlight = {} /\ Received = Reqs
    /\ Len(messages) >= 1
    /\ \E r \in Reqs : req[r].success = Some(FALSE)

--------------------------------------------------------------------------
(* The webhook without a secret *)

\* What the readiness check answers for a missing secret.
ReportsNoSecret ==
    validate(secret, database_url).error_msg = "WEBHOOK_SECRET environment variable is not set"

\* C27: while the readiness check reports that no secret is configured, no
\* request has added a row to the table.
C27_NoSecretNoRow ==
    ReportsNoSecret => (messages = <<>> /\ \A r \in Reqs : added[r] = 0)

--------------------------------------------------------------------------
(* Reading the listing page by page *)

\* The page sizes of the client.
PageSizes == {1, 2, 3}

\* The client asks for its next page: the same limit and filters, the
\* offset advanced by the limit for every page it has.
PagerRequest ==
    /\ ~pager.complete
    /\ ListReceive(pager.limit, Len(pager.pages) * pager.limit, pager.f)

\* The client takes the answer; it stops once its offsets have covered the
\* total of the answer.
PagerCollect ==
    /\ lst.pc = "done"
    /\ pager' = [pager EXCEPT !.pages = Append(@, lst.data),
                              !.failed = @ \/ lst.failed \/ lst.status # 200,
                              !.complete = (Len(pager.pages) + 1) * pager.limit >= lst.total]
    /\ lst' = IdleList
    /\ UNCHANGED besidesPager

\* A client against a populated store that no request changes.
InitP ==
    /\ secret = Some("k1")
    /\ messages \in Tables
    /\ clock = Len(messages)
    /\ webhook_requests = [k \in ResultKeys |-> 0]
    /\ req = [r \in Reqs |-> IdleReq]
    /\ recorded = [r \in Reqs |-> <<>>]
    /\ added = [r \in Reqs |-> 0]
    /\ faulted = [r \in Reqs |-> {}]
    /\ hidden = [r \in Reqs |-> FALSE]
    /\ lst = IdleList
    /\ sts = [c \in StatsCalls |-> IdleStats]
    /\ database_url = DefaultDatabaseUrl
    /\ db = init_db(DefaultDatabaseUrl, NoDatabase)
    /\ probe = [p \in Probes |-> IdleProbe]
    /\ http_requests = [key \in HttpKeys |-> 0]
    /\ lock = None
    /\ thread = [t \in Threads |-> IdleThread]
    /\ calls = NoCalls
    /\ pager \in {[IdlePager EXCEPT !.limit = limit, !.f = f] : limit \in PageSizes, f \in Filters}

NextP ==
    \/ PagerRequest
    \/ \E available \in BOOLEAN : ListCount(available)
    \/ \E available \in BOOLEAN : ListFetch(available)
    \/ PagerCollect

SpecP == InitP /\ [][NextP]_vars

RECURSIVE Concat(_)
Concat(seqs) == IF seqs = <<>> THEN <<>> ELSE Head(seqs) \o Concat(Tail(seqs))

\* The positions of the rows that the filters of the client select.
Matching ==
    {i \in 1..Len(messages) :
        where_clause(messages[i], pager.f.from_param, pager.f.since, pager.f.q)}

\* C28: when a client has read all its pages with limit L at offsets 0, L,
\* 2L, ... without a failed call, every page has at most L rows and the pages
\* put end to end are the matching rows in (ts, message_id) order, each of
\* them once: the k-th entry is the matching row with k-1 matching rows
\* before it.
C28_PagesPartitionTheList ==
    (pager.complete /\ ~pager.failed) =>
        LET all == Concat(pager.pages)
        IN  /\ \A p \in 1..Len(pager.pages) : Len(pager.pages[p]) <= pager.limit
            /\ Len(all) = Cardinality(Matching)
            /\ \A k \in 1..Len(all) :
                   \E i \in Matching :
                       /\ all[k] = Datum(messages[i])
                       /\ Cardinality({j \in Matching :
                                          SortsBefore(messages[j], messages[i])}) = k - 1

\* Three rows were read in two pages of limit 2, two of them with the same
\* ts and stored in the other order.
C28_Witness ==
    /\ pager.complete /\ ~pager.failed
    /\ pager.limit = 2 /\ Len(pager.pages) = 2 /\ Len(pager.pages[2]) = 1
    /\ \E i, j \in 1..Len(messages) :
           i < j /\ messages[i].ts = messages[j].ts
                 /\ LexLess(messages[j].message_id, messages[i].message_id)

--------------------------------------------------------------------------
(* One GET /stats result while rows are inserted *)

RECURSIVE SumOfCounts(_)
SumOfCounts(list) == IF list = <<>> THEN 0 ELSE Head(list).count + SumOfCounts(Tail(list))

\* C29: the result of every answered get_stats call, with rows inserted
\* while it runs, has total_messages = 0 exactly when both timestamps are
\* absent, senders_count at most total_messages, and per-sender counts that
\* sum to at most total_messages.
C29_StatsConsistent ==
    \A c \in StatsCalls :
        sts[c].pc = "done" =>
            /\ (sts[c].total_messages = 0) <=>
                   (sts[c].first_message_ts = None /\ sts[c].last_message_ts = None)
            /\ sts[c].senders_count <= sts[c].total_messages
            /\ SumOfCounts(sts[c].messages_per_sender) <= sts[c].total_messages

====
